---- MODULE Spec2Model ----
(***************************************************************************)
(* Model of src/model/mod.rs of omikuji: the label-centroid builder        *)
(* compute_feature_vectors_per_label and the balanced 2-means clusterer    *)
(* balanced_2means / balanced_2means_iterate.                              *)
(*                                                                         *)
(* Numbers.  The code computes in f32.  An f32 value is modelled as an     *)
(* integer count of grid steps of size 1/Scale (1.0 is Scale).  Products,  *)
(* quotients and square roots round to the nearest grid value, ties to     *)
(* even, as IEEE arithmetic rounds to the nearest representable value;     *)
(* sums and differences of grid values are exact.                          *)
(*                                                                         *)
(* Indexing.  Sequences are 1-based: vectors[i+1] is the code's            *)
(* vectors[i], centroids[1] and centroids[2] are centroids[0] and          *)
(* centroids[1].  Ranks r and mid_rank keep the code's 0-based values.     *)
(***************************************************************************)
EXTENDS Integers, Sequences, FiniteSets

VARIABLES
    entry,                \* which function the caller invokes
    pc,                   \* position of the call
    vectors,              \* vectors: &[&SparseVector<Feature>]
    epsilon,              \* epsilon: f32
    args,                 \* the caller's vectors, partitions and centroids at the call
    partitions,           \* partitions: Vec<bool> / &mut [bool]
    centroids,            \* centroids: [SparseVector<Feature>; 2]
    prev_avg_similarity,  \* balanced_2means local
    avg_similarity,       \* value returned by the last balanced_2means_iterate
    iterations,           \* number of completed balanced_2means_iterate calls
    last,                 \* trace of the last balanced_2means_iterate call
    panic_line,           \* source line of the failed assertion, 0 if none
    examples,             \* examples: &[Example]
    threshold,            \* threshold: f32
    label_result          \* (Vec<Label>, Vec<SparseVector<Feature>>)

vars == <<entry, pc, vectors, epsilon, args, partitions, centroids,
          prev_avg_similarity, avg_similarity, iterations, last, panic_line,
          examples, threshold, label_result>>

clusterVars == <<entry, vectors, epsilon, args, partitions, centroids,
                 prev_avg_similarity, avg_similarity, iterations, last>>

labelVars == <<examples, threshold, label_result>>

----------------------------------------------------------------------------
(* Bounds of the model *)

\* grid steps per unit: the precision of the modelled f32
Scale == 16
\* largest number of vectors handed to the clusterer
MaxN == 3
\* largest number of examples handed to the label-centroid builder
MaxExamples == 3

(* Program constants *)

\* the 1e-4 slack of the similarity assertion, in grid steps.  In f32 the
\* slack is far wider than the rounding error of a dot product of normalized
\* vectors; here that error is at most one grid step, and the slack is three.
SimTolerance == 3

----------------------------------------------------------------------------
(* f32 arithmetic on the grid *)

Abs(x) == IF x < 0 THEN -x ELSE x

\* x / y for y > 0, rounded to the nearest integer, ties to even
RoundDiv(x, y) ==
    LET a == Abs(x)
        q == a \div y
        r == a % y
        m == IF 2 * r < y THEN q
             ELSE IF 2 * r > y THEN q + 1
             ELSE IF q % 2 = 0 THEN q ELSE q + 1
    IN  IF x < 0 THEN -m ELSE m

\* a * b in f32
Mul(a, b) == RoundDiv(a * b, Scale)

\* a / b in f32, b > 0
Div(a, b) == RoundDiv(a * Scale, b)

\* the largest r in lo..hi with r * r <= x, by bisection
RECURSIVE FloorSqrtIn(_, _, _)
FloorSqrtIn(x, lo, hi) ==
    IF lo >= hi THEN lo
    ELSE LET mid == (lo + hi + 1) \div 2
         IN  IF mid * mid <= x THEN FloorSqrtIn(x, mid, hi)
             ELSE FloorSqrtIn(x, lo, mid - 1)

\* the square root of x, rounded to the nearest integer
RoundSqrt(x) ==
    LET r == CHOOSE y \in {FloorSqrtIn(x, 0, IF x < 40000 THEN x ELSE 40000)} : TRUE
    IN  IF x - r * r > r THEN r + 1 ELSE r

----------------------------------------------------------------------------
(* crate::data::SparseVector: a sequence of <<index, value>> entries,      *)
(* ascending by index, no index twice.                                     *)

Indices(v) == {v[k][1] : k \in 1..Len(v)}

ValueAt(v, i) ==
    IF i \in Indices(v) THEN v[CHOOSE k \in 1..Len(v) : v[k][1] = i][2] ELSE 0

\* dot: inner product by linear merge on the indices
RECURSIVE dot(_, _)
dot(a, b) ==
    IF a = <<>> \/ b = <<>> THEN 0
    ELSE IF Head(a)[1] < Head(b)[1] THEN dot(Tail(a), b)
    ELSE IF Head(a)[1] > Head(b)[1] THEN dot(a, Tail(b))
    ELSE Mul(Head(a)[2], Head(b)[2]) + dot(Tail(a), Tail(b))

RECURSIVE SumSquares(_)
SumSquares(v) == IF v = <<>> THEN 0 ELSE Head(v)[2] * Head(v)[2] + SumSquares(Tail(v))

\* l2_normalize: divides every value by the norm; no-op if the norm is zero.
\* The sum of squares is accumulated in double width, the norm is an f32.
l2_normalize(v) ==
    LET norm == RoundSqrt(SumSquares(v))
    IN  IF norm = 0 THEN v
        ELSE [k \in 1..Len(v) |-> <<v[k][1], RoundDiv(v[k][2] * Scale, norm)>>]

\* prune_with_threshold: drops the entries with |value| < t
prune_with_threshold(v, t) == SelectSeq(v, LAMBDA e : Abs(e[2]) >= t)

\* SparseVector::from(HashMap): the map's entries in ascending index order
RECURSIVE FromMap(_)
FromMap(map) ==
    IF DOMAIN map = {} THEN <<>>
    ELSE LET i == CHOOSE x \in DOMAIN map : \A y \in DOMAIN map : x <= y
         IN  <<<<i, map[i]>>>> \o FromMap([k \in DOMAIN map \ {i} |-> map[k]])

\* HashMap<Feature, f32>::new()
EmptyMap == [k \in {} |-> 0]

\* for &(index, value) in &v.entries { *map.entry(index).or_default() += value }
AddEntries(map, v) ==
    [k \in DOMAIN map \cup Indices(v) |->
        (IF k \in DOMAIN map THEN map[k] ELSE 0) + ValueAt(v, k)]

----------------------------------------------------------------------------
(* balanced_2means_iterate *)

\* assert!(vectors.len() >= 2)
AtLeastTwo(n) == n >= 2

\* the range assertion on one similarity pair s
SimilarityInRange(s) ==
    /\ -Scale - SimTolerance < s[1] /\ s[1] < Scale + SimTolerance
    /\ -Scale - SimTolerance < s[2] /\ s[2] < Scale + SimTolerance

\* similarities[i] = [centroids[0].dot(&v), centroids[1].dot(&v)]
Similarities(vs, cs) ==
    [i \in 1..Len(vs) |-> <<dot(cs[1], vs[i]), dot(cs[2], vs[i])>>]

\* index_diff_pairs[i] = (i, s[0] - s[1])
Differences(similarities) ==
    [i \in 1..Len(similarities) |-> similarities[i][1] - similarities[i][2]]

\* variant: the subtraction of one is missing
MidRank_NoMinusOne(n) == n \div 2

\* let mid_rank = vectors.len() / 2 - 1
MidRank(n) == n \div 2 - 1

\* variant: the comparator compares ld with rd, ordering ascending
CmpLess_Ascending(ld, rd) == ld < rd

\* the comparator |(_, ld), (_, rd)| rd.partial_cmp(ld): TRUE iff it answers Less
CmpLess(ld, rd) == rd < ld

Permutations(n) == {f \in [1..n -> 1..n] : \A i, j \in 1..n : f[i] = f[j] => i = j}

\* variant: no selection takes place, index_diff_pairs is in any order
kth_by_NoSelection(diffs, mid) == Permutations(Len(diffs))

\* kth_by(&mut index_diff_pairs, mid_rank, cmp): every arrangement in which no
\* element before position mid_rank compares greater than the element there
\* and no element after it compares less.  Which one results is kth_by's choice.
kth_by(diffs, mid) ==
    {o \in Permutations(Len(diffs)) :
        \A j \in 1..Len(diffs) :
            /\ j - 1 < mid => ~CmpLess(diffs[o[mid + 1]], diffs[o[j]])
            /\ j - 1 > mid => ~CmpLess(diffs[o[j]], diffs[o[mid + 1]])}

\* variant: the comparison is not strict
AssignedPartition_NotStrict(r, mid) == r >= mid

\* partitions[i] = r > mid_rank
AssignedPartition(r, mid) == r > mid

\* partitions[i] as usize, 1-based
Side(p) == IF p THEN 2 ELSE 1

\* variant: the similarity to the other centroid is added to the total
LoopBody_OtherCentroid(vs, similarities, mid, r, i, st) ==
    LET parts == [st.partitions EXCEPT ![i] = AssignedPartition(r, mid)]
        side  == Side(parts[i])
    IN  [partitions |-> parts,
         total      |-> st.total + similarities[i][3 - side],
         maps       |-> [st.maps EXCEPT ![side] = AddEntries(@, vs[i])],
         writes     |-> [st.writes EXCEPT ![i] = @ + 1]]

\* variant: the side is read from partitions[i] before the position is written
LoopBody_ReadBeforeWrite(vs, similarities, mid, r, i, st) ==
    LET parts == [st.partitions EXCEPT ![i] = AssignedPartition(r, mid)]
        side  == Side(st.partitions[i])
    IN  [partitions |-> parts,
         total      |-> st.total + similarities[i][side],
         maps       |-> [st.maps EXCEPT ![side] = AddEntries(@, vs[i])],
         writes     |-> [st.writes EXCEPT ![i] = @ + 1]]

\* One pass of the loop over index_diff_pairs, at rank r with vector i.
\* st holds partitions, total_similarities, centroid_builder_maps and, for
\* each position of partitions, how often it was written.
LoopBody(vs, similarities, mid, r, i, st) ==
    LET parts == [st.partitions EXCEPT ![i] = AssignedPartition(r, mid)]
        side  == Side(parts[i])
    IN  [partitions |-> parts,
         total      |-> st.total + similarities[i][side],
         maps       |-> [st.maps EXCEPT ![side] = AddEntries(@, vs[i])],
         writes     |-> [st.writes EXCEPT ![i] = @ + 1]]

RECURSIVE AssignLoop(_, _, _, _, _, _)
AssignLoop(vs, similarities, order, mid, r, st) ==
    IF r >= Len(order) THEN st
    ELSE AssignLoop(vs, similarities, order, mid, r + 1,
                    LoopBody(vs, similarities, mid, r, order[r + 1], st))

\* centroids[i] = l2_normalize(SparseVector::from(map))
NewCentroids(maps) == [p \in 1..2 |-> l2_normalize(FromMap(maps[p]))]

\* total_similarities / vectors.len() as f32
AverageSimilarity(total, n) == Div(total, n * Scale)

\* variant: the lengths of vectors and partitions are not compared
IterateAssertion_NoLengthCheck(vs, parts, cs) ==
    IF ~AtLeastTwo(Len(vs)) THEN 37
    ELSE IF \E s \in {Similarities(vs, cs)} : \E i \in 1..Len(vs) : ~SimilarityInRange(s[i]) THEN 45
    ELSE 0

\* The line of the assertion of balanced_2means_iterate that fails, 0 if none.
IterateAssertion(vs, parts, cs) ==
    IF Len(vs) # Len(parts) THEN 36
    ELSE IF ~AtLeastTwo(Len(vs)) THEN 37
    ELSE IF \E s \in {Similarities(vs, cs)} : \E i \in 1..Len(vs) : ~SimilarityInRange(s[i]) THEN 45
    ELSE 0

\* The body of balanced_2means_iterate past its assertions, where order is
\* the arrangement kth_by left in index_diff_pairs.
balanced_2means_iterate(vs, parts, cs, order) ==
    LET similarities == Similarities(vs, cs)
        mid == MidRank(Len(vs))
        st  == AssignLoop(vs, similarities, order, mid, 0,
                          [partitions |-> parts,
                           total      |-> 0,
                           maps       |-> <<EmptyMap, EmptyMap>>,
                           writes     |-> [i \in 1..Len(parts) |-> 0]])
    IN  [partitions |-> st.partitions,
         centroids  |-> NewCentroids(st.maps),
         avg        |-> AverageSimilarity(st.total, Len(vs)),
         writes     |-> st.writes,
         mid_rank   |-> mid]

----------------------------------------------------------------------------
(* Inputs *)

F32(x) == x * Scale

\* vectors before normalisation, over features 1 and 2
RawVectors ==
    << <<<<1, F32(1)>>>>,
       <<<<1, F32(-1)>>>>,
       <<<<2, F32(-1)>>>>,
       <<<<1, F32(3)>>, <<2, F32(4)>>>>,
       <<<<1, F32(19)>>, <<2, F32(12)>>>> >>

\* the unit-norm input vectors: every one is the result of l2_normalize
UnitVectors == [k \in 1..Len(RawVectors) |-> l2_normalize(RawVectors[k])]

\* lists of n unit-norm vectors; the position of a vector in the list only
\* names it, so lists are enumerated up to reordering
VectorLists(n) ==
    {[i \in 1..n |-> UnitVectors[f[i]]] :
        f \in {g \in [1..n -> 1..Len(UnitVectors)] :
                  \A i \in 1..n : i < n => g[i] <= g[i + 1]}}

\* epsilon, in grid steps
Epsilons == {2}

\* centroid pairs of a direct call of balanced_2means_iterate; the last pair
\* is not unit-norm
CentroidPairs ==
    { <<l2_normalize(<<<<1, F32(1)>>, <<2, F32(1)>>>>),
        l2_normalize(<<<<1, F32(-1)>>, <<2, F32(-1)>>>>)>>,
      <<<<<<2, F32(1)>>>>, <<<<2, F32(-1)>>>>>>,
      <<<<<<1, F32(2)>>>>, <<<<2, F32(1)>>>>>> }

\* contents of the partitions slice at a direct call, for n vectors
PartitionSlices(n) ==
    {[i \in 1..n |-> FALSE], [i \in 1..n |-> TRUE], [i \in 1..n + 1 |-> FALSE]}

NoCall == [centroids |-> <<>>, partitions |-> <<>>, order |-> <<>>,
           writes |-> <<>>, mid_rank |-> <<>>]

NoLabels == [labels |-> <<>>, vectors |-> <<>>]

Init ==
    /\ pc = "start"
    /\ panic_line = 0
    /\ iterations = 0
    /\ last = NoCall
    /\ prev_avg_similarity = 0
    /\ avg_similarity = 0
    /\ examples = <<>>
    /\ threshold = 0
    /\ label_result = NoLabels
    /\ \E n \in 0..MaxN : vectors \in VectorLists(n)
    /\ entry \in {"balanced_2means", "balanced_2means_iterate"}
    /\ IF entry = "balanced_2means"
       THEN /\ epsilon \in Epsilons
            /\ partitions = <<>>
            /\ centroids = <<>>
       ELSE /\ epsilon = 0
            /\ partitions \in PartitionSlices(Len(vectors))
            /\ centroids \in CentroidPairs
    /\ args = [vectors |-> vectors, partitions |-> partitions, centroids |-> centroids]

----------------------------------------------------------------------------
(* Actions *)

Panic(line) ==
    /\ pc' = "panicked"
    /\ panic_line' = line

\* The call of balanced_2means_iterate on the current vectors, partitions
\* and centroids; on return the caller continues at `ret`.
CallIterate(ret) ==
    LET line == IterateAssertion(vectors, partitions, centroids)
    IN  IF line # 0
        THEN /\ Panic(line)
             /\ UNCHANGED <<partitions, centroids, avg_similarity, iterations, last>>
        ELSE \E order \in kth_by(Differences(Similarities(vectors, centroids)),
                                 MidRank(Len(vectors))) :
                \E res \in {balanced_2means_iterate(vectors, partitions, centroids, order)} :
                    /\ partitions' = res.partitions
                    /\ centroids' = res.centroids
                    /\ avg_similarity' = res.avg
                    /\ iterations' = iterations + 1
                    /\ last' = [centroids  |-> centroids,
                                partitions |-> partitions,
                                order      |-> order,
                                writes     |-> res.writes,
                                mid_rank   |-> <<res.mid_rank>>]
                    /\ pc' = ret
                    /\ UNCHANGED panic_line

\* balanced_2means up to its loop: the initial centroids are clones of two
\* vectors at distinct positions, drawn at random
Balanced2MeansBegin ==
    /\ pc = "start"
    /\ entry = "balanced_2means"
    /\ IF ~AtLeastTwo(Len(vectors))
       THEN /\ Panic(87)
            /\ UNCHANGED <<partitions, centroids, prev_avg_similarity>>
       ELSE /\ \E i, j \in 1..Len(vectors) :
                  /\ i # j
                  /\ centroids' = <<vectors[i], vectors[j]>>
            /\ prev_avg_similarity' = F32(-2)
            /\ partitions' = [i \in 1..Len(vectors) |-> FALSE]
            /\ pc' = "loop"
            /\ UNCHANGED panic_line
    /\ UNCHANGED <<entry, vectors, epsilon, args, avg_similarity, iterations, last>>
    /\ UNCHANGED labelVars

\* let avg_similarity = balanced_2means_iterate(vectors, &mut partitions, &mut centroids)
Balanced2MeansIterate ==
    /\ pc = "loop"
    /\ CallIterate("assert")
    /\ UNCHANGED <<entry, vectors, epsilon, args, prev_avg_similarity>>
    /\ UNCHANGED labelVars

\* the assertion on the returned average and the convergence test
Balanced2MeansCheck ==
    /\ pc = "assert"
    /\ IF ~(avg_similarity >= prev_avg_similarity)
       THEN /\ Panic(99)
            /\ UNCHANGED prev_avg_similarity
       ELSE IF avg_similarity - prev_avg_similarity < epsilon
       THEN /\ pc' = "returned"
            /\ UNCHANGED <<prev_avg_similarity, panic_line>>
       ELSE /\ prev_avg_similarity' = avg_similarity
            /\ pc' = "loop"
            /\ UNCHANGED panic_line
    /\ UNCHANGED <<entry, vectors, epsilon, args, partitions, centroids,
                   avg_similarity, iterations, last>>
    /\ UNCHANGED labelVars

\* a direct call of balanced_2means_iterate with the caller's partitions
\* slice and centroids
IterateDirect ==
    /\ pc = "start"
    /\ entry = "balanced_2means_iterate"
    /\ CallIterate("returned")
    /\ UNCHANGED <<entry, vectors, epsilon, args, prev_avg_similarity>>
    /\ UNCHANGED labelVars

Next ==
    \/ Balanced2MeansBegin
    \/ Balanced2MeansIterate
    \/ Balanced2MeansCheck
    \/ IterateDirect

Spec == Init /\ [][Next]_vars
----------------------------------------------------------------------------
(* compute_feature_vectors_per_label *)

\* the loop body for one example: for label in &example.labels
\*   { for (feature, value) in entries { *feature_to_sum.entry(feature) += value } }
RECURSIVE AddLabels(_, _, _)
AddLabels(map, labels, features) ==
    IF labels = <<>> THEN map
    ELSE LET label == Head(labels)
             feature_to_sum == IF label \in DOMAIN map THEN map[label] ELSE EmptyMap
             summed == AddEntries(feature_to_sum, features)
         IN  AddLabels([k \in DOMAIN map \cup {label} |->
                            IF k = label THEN summed ELSE map[k]],
                       Tail(labels), features)

\* for example in examples { ... }
RECURSIVE SumExamples(_, _)
SumExamples(map, exs) ==
    IF exs = <<>> THEN map
    ELSE SumExamples(AddLabels(map, Head(exs).labels, Head(exs).features), Tail(exs))

\* variant: the vector is pruned before it is normalized
LabelVector_PruneFirst(feature_to_sum, t) ==
    l2_normalize(prune_with_threshold(FromMap(feature_to_sum), t))

\* the closure mapped over the label map: from, l2_normalize, prune_with_threshold
LabelVector(feature_to_sum, t) ==
    prune_with_threshold(l2_normalize(FromMap(feature_to_sum)), t)

\* the orders in which the label map can be iterated
IterationOrders(S) ==
    {o \in [1..Cardinality(S) -> S] : \A i, j \in DOMAIN o : o[i] = o[j] => i = j}

\* compute_feature_vectors_per_label, where order is the iteration order of
\* label_to_feature_to_sum
compute_feature_vectors_per_label(exs, t, order) ==
    LET label_to_feature_to_sum == SumExamples(EmptyMap, exs)
    IN  [labels  |-> order,
         vectors |-> [k \in 1..Len(order) |->
                         LabelVector(label_to_feature_to_sum[order[k]], t)]]

\* the keys of label_to_feature_to_sum
LabelsSummed(exs) == DOMAIN SumExamples(EmptyMap, exs)

\* examples: sorted feature entries, labels without repetition
ExampleSet ==
    { [features |-> <<<<0, F32(1)>>, <<2, F32(2)>>>>, labels |-> <<0, 1>>],
      [features |-> <<<<1, F32(1)>>, <<3, F32(2)>>>>, labels |-> <<0, 2>>],
      [features |-> <<<<0, F32(1)>>, <<3, F32(2)>>>>, labels |-> <<1, 2>>],
      [features |-> <<<<0, F32(-1)>>>>,               labels |-> <<1>>],
      [features |-> <<<<2, F32(1)>>>>,                labels |-> <<>>],
      [features |-> <<>>,                             labels |-> <<2>>] }

Thresholds == {0, Scale \div 3}

InitLabels ==
    /\ pc = "start"
    /\ entry = "compute_feature_vectors_per_label"
    /\ panic_line = 0
    /\ iterations = 0
    /\ last = NoCall
    /\ prev_avg_similarity = 0
    /\ avg_similarity = 0
    /\ vectors = <<>>
    /\ epsilon = 0
    /\ partitions = <<>>
    /\ centroids = <<>>
    /\ args = [vectors |-> <<>>, partitions |-> <<>>, centroids |-> <<>>]
    /\ \E n \in 0..MaxExamples : examples \in [1..n -> ExampleSet]
    /\ threshold \in Thresholds
    /\ label_result = NoLabels

ComputeFeatureVectorsPerLabel ==
    /\ pc = "start"
    /\ entry = "compute_feature_vectors_per_label"
    /\ \E order \in IterationOrders(LabelsSummed(examples)) :
          label_result' = compute_feature_vectors_per_label(examples, threshold, order)
    /\ pc' = "returned"
    /\ UNCHANGED <<examples, threshold, panic_line>>
    /\ UNCHANGED clusterVars

NextLabels == ComputeFeatureVectorsPerLabel

SpecLabels == InitLabels /\ [][NextLabels]_vars


----------------------------------------------------------------------------
(* State functions of the claims *)

\* balanced_2means_iterate has just returned: `last` holds what it was given,
\* partitions, centroids and avg_similarity what it wrote and returned
IterateReturned == iterations > 0 /\ pc \in {"assert", "returned"}

N == Len(vectors)

\* every entry of v is zero (an empty v too)
AllZero(v) == \A k \in 1..Len(v) : v[k][2] = 0

Count(p, b) == Cardinality({i \in 1..Len(p) : p[i] = b})

\* similarities and differences against the centroids at entry to the last call
EntrySimilarities == Similarities(vectors, last.centroids)

EntryDifferences == Differences(EntrySimilarities)

RECURSIVE SumUpTo(_, _)
SumUpTo(f, n) == IF n = 0 THEN 0 ELSE f[n] + SumUpTo(f, n - 1)

\* sum over i of similarities[i][q[i]]
TotalSimilarity(similarities, q) ==
    SumUpTo([i \in 1..Len(q) |-> similarities[i][Side(q[i])]], Len(q))

\* the sum, in feature f, of the vectors that partition p assigns to side
SideSum(p, side, f) ==
    SumUpTo([i \in 1..Len(p) |-> IF Side(p[i]) = side THEN ValueAt(vectors[i], f) ELSE 0],
            Len(p))

Features == UNION {Indices(vectors[i]) : i \in 1..Len(vectors)}

----------------------------------------------------------------------------
(* Claims *)

\* C1: after every balanced_2means_iterate call on n >= 2 vectors, and so in
\* the vector balanced_2means returns, the numbers of true and false entries
\* differ by at most one and are equal when n is even.
C1_Balanced ==
    /\ pc = "returned" => iterations > 0
    /\ IterateReturned =>
          /\ Abs(Count(partitions, TRUE) - Count(partitions, FALSE)) <= 1
          /\ N % 2 = 0 => Count(partitions, TRUE) = Count(partitions, FALSE)

C1_Witness ==
    /\ entry = "balanced_2means"
    /\ pc = "returned"
    /\ N = 3
    /\ Count(partitions, TRUE) = 2
    /\ Count(partitions, FALSE) = 1

\* C2 as stated: the floor(n/2) vectors with the largest d are assigned to
\* partition 1 (true), all others to partition 0 (false).
C2_TopHalfTrue ==
    IterateReturned =>
        /\ Count(partitions, TRUE) = N \div 2
        /\ \A d \in {EntryDifferences} : \A i, j \in 1..N :
              partitions[i] /\ ~partitions[j] => d[i] >= d[j]

\* C2 amended: the floor(n/2) vectors with the largest d are assigned to
\* partition 0 (false), the remaining n - floor(n/2) to partition 1 (true).
C2_TopHalfFalse ==
    IterateReturned =>
        /\ Count(partitions, FALSE) = N \div 2
        /\ Count(partitions, TRUE) = N - N \div 2
        /\ \A d \in {EntryDifferences} : \A i, j \in 1..N :
              ~partitions[i] /\ partitions[j] => d[i] >= d[j]

C2_Witness ==
    /\ IterateReturned
    /\ N = 3
    /\ \A d \in {EntryDifferences} : \A i, j \in 1..N :
          ~partitions[i] /\ partitions[j] => d[i] > d[j]

\* C3: in balanced_2means on n >= 2 unit-norm vectors, every average similarity
\* that balanced_2means_iterate returns is at least prev_avg_similarity, so
\* the assertion on it holds whenever it is reached.
C3_Monotone ==
    entry = "balanced_2means" /\ pc = "assert" =>
        avg_similarity >= prev_avg_similarity

\* the examples tagged with label
Tagged(label) ==
    {k \in 1..Len(examples) :
        \E j \in 1..Len(examples[k].labels) : examples[k].labels[j] = label}

\* S_L: per feature, the sum of the entries of the examples tagged with label
LabelSum(label) ==
    LET fs == UNION {Indices(examples[k].features) : k \in Tagged(label)}
    IN  FromMap([f \in fs |->
            SumUpTo([k \in 1..Len(examples) |->
                        IF k \in Tagged(label)
                        THEN ValueAt(examples[k].features, f) ELSE 0],
                    Len(examples))])

\* C4: the two sequences have equal length; a label appears, exactly once, iff
\* it tags an example; the vector beside label L is S_L normalized and then
\* pruned, with no second normalization.
C4_LabelVectors ==
    pc = "returned" =>
        /\ Len(label_result.labels) = Len(label_result.vectors)
        /\ \A k \in 1..Len(label_result.labels) :
              /\ Tagged(label_result.labels[k]) # {}
              /\ \A j \in 1..Len(label_result.labels) :
                    label_result.labels[j] = label_result.labels[k] => j = k
              /\ label_result.vectors[k]
                    = prune_with_threshold(l2_normalize(LabelSum(label_result.labels[k])),
                                           threshold)
        /\ \A e \in 1..Len(examples) : \A j \in 1..Len(examples[e].labels) :
              \E k \in 1..Len(label_result.labels) :
                    label_result.labels[k] = examples[e].labels[j]

C4_Witness ==
    /\ pc = "returned"
    /\ Len(label_result.labels) = 3
    /\ \E k \in 1..Len(label_result.labels) :
          /\ Cardinality(Tagged(label_result.labels[k])) = 2
          /\ label_result.vectors[k] # <<>>
          /\ Len(label_result.vectors[k])
                < Len(LabelSum(label_result.labels[k]))
          /\ SumSquares(label_result.vectors[k]) < Scale * Scale

C6_Returns ==
    entry = "balanced_2means" /\ N >= 2 /\ epsilon > 0 =>
        /\ pc # "panicked"
        /\ pc = "returned" =>
              /\ iterations >= 1
              /\ avg_similarity - prev_avg_similarity < epsilon
        /\ pc = "loop" /\ iterations >= 1 => prev_avg_similarity = avg_similarity
        /\ avg_similarity < Scale + SimTolerance

\* C7: the value returned is the sum over i of similarities[i][partitions[i]]
\* divided by n, with the similarities taken against the centroids at entry
\* and the partitions written by the same call.
C7_Average ==
    IterateReturned =>
        avg_similarity = Div(TotalSimilarity(EntrySimilarities, partitions), F32(N))

C7_Witness ==
    /\ IterateReturned
    /\ centroids # last.centroids
    /\ TotalSimilarity(Similarities(vectors, centroids), partitions)
          # TotalSimilarity(EntrySimilarities, partitions)
    /\ \E i \in 1..N : EntrySimilarities[i][1] # EntrySimilarities[i][2]

C9_RejectedBeforeWrites ==
    /\ entry = "balanced_2means_iterate" /\ pc # "start"
          /\ (N < 2 \/ Len(args.partitions) # N)
       => /\ pc = "panicked"
          /\ panic_line \in {36, 37}
          /\ last = NoCall
          /\ partitions = args.partitions
          /\ centroids = args.centroids
    /\ entry = "balanced_2means" /\ pc # "start" /\ N < 2
       => /\ pc = "panicked"
          /\ panic_line = 87
          /\ last = NoCall
          /\ partitions = args.partitions
          /\ centroids = args.centroids

C9_Witness ==
    /\ entry = "balanced_2means_iterate"
    /\ pc = "panicked"
    /\ N = 1
    /\ Len(args.partitions) = 1
    /\ panic_line = 37

\* C10: a call writes every position of partitions exactly once, and for the
\* same vectors, entry centroids and kth_by arrangement its partitions, new
\* centroids and returned average are the same whatever partitions held at
\* entry; the vectors are unchanged.
C10_EntryPartitionsIgnored ==
    /\ vectors = args.vectors
    /\ IterateReturned =>
          /\ \A i \in 1..N : last.writes[i] = 1
          /\ \A q \in [1..N -> BOOLEAN] :
                \E res \in {balanced_2means_iterate(vectors, q, last.centroids, last.order)} :
                    /\ res.partitions = partitions
                    /\ res.centroids = centroids
                    /\ res.avg = avg_similarity

C10_Witness ==
    /\ entry = "balanced_2means_iterate"
    /\ pc = "returned"
    /\ last.partitions = [i \in 1..N |-> TRUE]
    /\ \E i \in 1..N : ~partitions[i]

====
